---- MODULE Spec2Model ----
(***************************************************************************)
(* Model of yellowbrick.features.pcoords.ParallelCoordinates.              *)
(*                                                                         *)
(* The state is one visualizer object (the attributes __init__ sets) and   *)
(* the record of one fit call: its arguments, the drawing calls it issued  *)
(* on the axes and how it ended.  The record is open from the call until   *)
(* the caller takes the result (Release); artists of earlier calls stay on *)
(* the axes but are not part of the record, because every property below   *)
(* is about what one call draws.                                           *)
(*                                                                         *)
(* Python values: None is the empty tuple and a present value v is <<v>>;  *)
(* a list is a sequence; a dict is a function or a set of key/value pairs. *)
(* The numeric cells of X are not represented: a row is identified by its  *)
(* index, which is all that fit does with it (it hands it to ax.plot).     *)
(***************************************************************************)
EXTENDS Integers, Sequences, FiniteSets, TLC

VARIABLES features_, classes_, ax, show_vlines, vlines_kwds, kwds_arg,
          X, y, color_values, pre, plotted, axvlines, xticks, xticklabels,
          xlim, outcome

vars == <<features_, classes_, ax, show_vlines, vlines_kwds, kwds_arg,
          X, y, color_values, pre, plotted, axvlines, xticks, xticklabels,
          xlim, outcome>>

(***************************************************************************)
(* Bounds of the model.                                                    *)
(***************************************************************************)
MaxRows == 2
MaxCols == 2
MaxLabel == 1

(***************************************************************************)
(* Python values.                                                          *)
(***************************************************************************)
None == <<>>
Some(v) == <<v>>
Get(o) == o[1]

Range(s) == {s[i] : i \in 1..Len(s)}

Min(a, b) == IF a < b THEN a ELSE b

\* Raw labels a label vector may hold: small integers, one of them negative.
Labels == (0 - 1)..MaxLabel

\* str(n) for an integer n.
Digits == <<"0", "1", "2", "3", "4", "5", "6", "7", "8", "9">>

RECURSIVE Str(_)
Str(n) ==
    IF n < 0 THEN "-" \o Str(0 - n)
    ELSE IF n < 10 THEN Digits[n + 1]
    ELSE Str(n \div 10) \o Digits[(n % 10) + 1]

\* seq[i] for a Python list: -Len <= i < Len, negative i counts from the end.
PyIndexOK(seq, i) == (0 - Len(seq)) <= i /\ i < Len(seq)

PyIndex(seq, i) == IF i < 0 THEN seq[Len(seq) + i + 1] ELSE seq[i + 1]

\* An exception: its class, the source line that raises it, and the
\* instance index it names.  None of the built-in exceptions fit can raise
\* (TypeError, IndexError, KeyError, ValueError) carries the loop index.
Raise(type, line) == Some([type |-> type, line |-> line, instance |-> None])

(***************************************************************************)
(* Inputs.                                                                 *)
(***************************************************************************)
ColumnNames == <<"a", "b", "c", "d", "e">>

\* X is a numpy array (columns = None) or a DataFrame with named columns;
\* it has at least one row and one column.
Matrices ==
    { [nrows |-> n, ncols |-> f, columns |-> None] :
        n \in 1..MaxRows, f \in 1..MaxCols }
    \cup
    { [nrows |-> n, ncols |-> f, columns |-> Some(SubSeq(ColumnNames, s, s + f - 1))] :
        n \in 1..MaxRows, f \in 1..MaxCols, s \in 1..2 }

\* y is None or a vector with one raw label per row of X.
LabelVectors(n) == {None} \cup {Some(v) : v \in [1..n -> Labels]}

\* The orders in which iterating set(y) can yield the distinct labels.
SetOrders(S) ==
    { o \in [1..Cardinality(S) -> S] : \A i, j \in 1..Cardinality(S) : o[i] = o[j] => i = j }

ExplicitFeatures == {SubSeq(ColumnNames, 1, k) : k \in 1..MaxCols}

ExplicitClasses == {<<"x">>, <<"x", "y">>}

DefaultVlinesKwds == {<<"linewidth", 1>>, <<"color", "black">>}

CustomVlinesKwds == {<<"color", "red">>}

Palette == <<"red", "green", "blue", "cyan", "magenta", "yellow">>

\* resolve_colors(num_colors, colormap, color): documented to return
\* num_colors colors; returns one fewer or one more when it breaks that.
resolve_colors(num_colors) ==
    { SubSeq(Palette, 1, k) :
        k \in {num_colors - 1, num_colors, num_colors + 1} \cap (0..Len(Palette)) }

(***************************************************************************)
(* fit, step by step.                                                      *)
(***************************************************************************)
\* A variant that treats a missing label vector as an empty one.
ResolveClasses_MissingLabelsAsEmpty(classes, yy, order) ==
    IF classes # None THEN [err |-> None, classes |-> classes]
    ELSE IF yy = None THEN [err |-> None, classes |-> Some(<<>>)]
    ELSE [err |-> None, classes |-> Some([i \in 1..Len(order) |-> Str(order[i])])]

\* if self.classes_ is None: self.classes_ = [str(label) for label in set(y)]
ResolveClasses(classes, yy, order) ==
    IF classes # None THEN [err |-> None, classes |-> classes]
    ELSE IF yy = None THEN [err |-> Raise("TypeError", 108), classes |-> classes]
    ELSE [err |-> None, classes |-> Some([i \in 1..Len(order) |-> Str(order[i])])]

\* A variant that derives the names on every call, cached or not.
ResolveFeatures_AlwaysDerive(features, XX) ==
    IF XX.columns # None THEN XX.columns
    ELSE Some([i \in 1..XX.ncols |-> Str(i - 1)])

\* A variant that numbers the columns from one.
ResolveFeatures_OneBased(features, XX) ==
    IF features # None THEN features
    ELSE IF XX.columns # None THEN XX.columns
    ELSE Some([i \in 1..XX.ncols |-> Str(i)])

\* if self.features_ is None: X.columns, else str(cdx) for cdx in range(ncols)
ResolveFeatures(features, XX) ==
    IF features # None THEN features
    ELSE IF XX.columns # None THEN XX.columns
    ELSE Some([i \in 1..XX.ncols |-> Str(i - 1)])

\* x = list(range(ncols))
AxisPositions(ncols) == [i \in 1..ncols |-> i - 1]

\* A variant that pairs the class list with the color sequence reversed.
ZipDict_Reversed(classes, cv) ==
    LET m == Min(Len(classes), Len(cv))
    IN  [ k \in {classes[i] : i \in 1..m} |->
            cv[m + 1 - (CHOOSE i \in 1..m : classes[i] = k /\ \A j \in 1..m : classes[j] = k => j <= i)] ]

\* colors = dict(zip(self.classes_, color_values)): zip stops at the shorter
\* sequence, and a repeated key keeps its last value.
ZipDict(classes, cv) ==
    LET m == Min(Len(classes), Len(cv))
    IN  [ k \in {classes[i] : i \in 1..m} |->
            cv[CHOOSE i \in 1..m : classes[i] = k /\ \A j \in 1..m : classes[j] = k => j <= i] ]

\* enumerate(X): the rows of an array, the column labels of a DataFrame.
Enumerate(XX) ==
    IF XX.columns # None
    THEN [i \in 1..XX.ncols |-> [kind |-> "column", idx |-> i - 1, name |-> Get(XX.columns)[i]]]
    ELSE [i \in 1..XX.nrows |-> [kind |-> "row", idx |-> i - 1, name |-> ""]]

\* A string handed to ax.plot as its second positional argument is read as
\* a format string; these one-letter names are color codes, "a" is not.
IsFormatString(name) == name \in {"b", "c"}

\* The body of the instance loop for one item: the artist it draws, or the
\* exception it raises.
PlotInstance(x, item, yy, classes, colors) ==
    IF yy = None THEN [err |-> Raise("TypeError", 141), line |-> None]
    ELSE IF item.idx >= Len(Get(yy)) THEN [err |-> Raise("IndexError", 141), line |-> None]
    ELSE LET raw == Get(yy)[item.idx + 1]
         IN  IF ~PyIndexOK(classes, raw) THEN [err |-> Raise("IndexError", 142), line |-> None]
             ELSE LET label == PyIndex(classes, raw)
                  IN  IF label \notin DOMAIN colors
                      THEN [err |-> Raise("KeyError", 143), line |-> None]
                      ELSE IF item.kind = "column" /\ ~IsFormatString(item.name)
                      THEN [err |-> Raise("ValueError", 143), line |-> None]
                      ELSE [err |-> None,
                            line |-> Some([x |-> x, data |-> item, idx |-> item.idx,
                                           color |-> colors[label], label |-> label])]

\* for idx, row in enumerate(X): ... self.ax.plot(...)
RECURSIVE AddInstances(_, _, _, _, _, _, _)
AddInstances(items, k, x, yy, classes, colors, drawn) ==
    IF k > Len(items) THEN [err |-> None, drawn |-> drawn]
    ELSE LET r == PlotInstance(x, items[k], yy, classes, colors)
         IN  IF r.err # None THEN [err |-> r.err, drawn |-> drawn]
             ELSE AddInstances(items, k + 1, x, yy, classes, colors, Append(drawn, Get(r.line)))

\* A variant that skips the guide of the last axis.
AddVlines_SkipLast(show, x, kwds) ==
    IF show /\ Len(x) > 0 THEN [i \in 1..(Len(x) - 1) |-> [pos |-> x[i], kwds |-> kwds]] ELSE <<>>

\* if self.show_vlines: for idx in x: self.ax.axvline(idx, **self.vlines_kwds)
AddVlines(show, x, kwds) ==
    IF show THEN [i \in 1..Len(x) |-> [pos |-> x[i], kwds |-> kwds]] ELSE <<>>

\* self.ax.set_xlim(x[0], x[-1])
SetXlim(x) ==
    IF Len(x) = 0 THEN [err |-> Raise("IndexError", 153), xlim |-> None]
    ELSE [err |-> None, xlim |-> Some(<<x[1], x[Len(x)]>>)]

Returned == [status |-> "returned", type |-> "", line |-> 156, instance |-> None]

Raised(err) == [status |-> "raised", type |-> Get(err).type, line |-> Get(err).line,
                instance |-> Get(err).instance]

\* vlines_kwds or {'linewidth': 1, 'color': 'black'}
VlinesKwdsOrDefault(arg) == IF arg = None \/ Get(arg) = {} THEN DefaultVlinesKwds ELSE Get(arg)

(***************************************************************************)
(* __init__                                                                *)
(***************************************************************************)
NoCall == [status |-> "none", type |-> "", line |-> 0, instance |-> None]

NoMatrix == [nrows |-> 0, ncols |-> 0, columns |-> None]

Init ==
    /\ features_ \in {None} \cup {Some(f) : f \in ExplicitFeatures}
    /\ classes_ \in {None} \cup {Some(c) : c \in ExplicitClasses}
    /\ ax \in {None, Some("axes")}
    /\ show_vlines \in BOOLEAN
    /\ kwds_arg \in {None, Some({}), Some(CustomVlinesKwds)}
    /\ vlines_kwds = VlinesKwdsOrDefault(kwds_arg)
    /\ X = NoMatrix
    /\ y = None
    /\ color_values = <<>>
    /\ pre = [features |-> features_, classes |-> classes_]
    /\ plotted = <<>>
    /\ axvlines = <<>>
    /\ xticks = None
    /\ xticklabels = None
    /\ xlim = None
    /\ outcome = NoCall

(***************************************************************************)
(* fit(X, y)                                                               *)
(***************************************************************************)
\* The call raised before it issued the drawing step at source line `line'.
Aborted(err) ==
    /\ plotted' = <<>>
    /\ axvlines' = <<>>
    /\ xticks' = None
    /\ xticklabels' = None
    /\ xlim' = None
    /\ outcome' = Raised(err)

FitBody(XX, yy, order, cv) ==
    LET rc == ResolveClasses(classes_, yy, order)
    IN  IF rc.err # None
        THEN /\ classes_' = rc.classes
             /\ features_' = features_
             /\ ax' = ax
             /\ color_values' = <<>>
             /\ Aborted(rc.err)
        ELSE LET feats == ResolveFeatures(features_, XX)
                 x == AxisPositions(XX.ncols)
                 colors == ZipDict(Get(rc.classes), cv)
                 loop == AddInstances(Enumerate(XX), 1, x, yy, Get(rc.classes), colors, <<>>)
                 lim == SetXlim(x)
             IN  /\ classes_' = rc.classes
                 /\ features_' = feats
                 /\ ax' = IF ax = None THEN Some("gca") ELSE ax
                 /\ color_values' = cv
                 /\ plotted' = loop.drawn
                 /\ IF loop.err # None
                    THEN /\ axvlines' = <<>>
                         /\ xticks' = None
                         /\ xticklabels' = None
                         /\ xlim' = None
                         /\ outcome' = Raised(loop.err)
                    ELSE /\ axvlines' = AddVlines(show_vlines, x, vlines_kwds)
                         /\ xticks' = Some(x)
                         /\ xticklabels' = feats
                         /\ xlim' = lim.xlim
                         /\ outcome' = IF lim.err # None THEN Raised(lim.err) ELSE Returned

Fit ==
    /\ outcome = NoCall
    /\ \E XX \in Matrices :
       \E yy \in LabelVectors(XX.nrows) :
       \E order \in (IF classes_ = None /\ yy # None THEN SetOrders(Range(Get(yy))) ELSE {<<>>}) :
       \E cv \in (LET rc == ResolveClasses(classes_, yy, order)
                  IN  IF rc.err # None THEN {<<>>} ELSE resolve_colors(Len(Get(rc.classes)))) :
          /\ X' = XX
          /\ y' = yy
          /\ pre' = [features |-> features_, classes |-> classes_]
          /\ FitBody(XX, yy, order, cv)
          /\ UNCHANGED <<show_vlines, vlines_kwds, kwds_arg>>

\* The caller takes the handle fit returned, or catches what it raised: the
\* record of the call is closed and the visualizer is ready for the next one.
Release ==
    /\ outcome # NoCall
    /\ X' = NoMatrix
    /\ y' = None
    /\ color_values' = <<>>
    /\ pre' = [features |-> features_, classes |-> classes_]
    /\ plotted' = <<>>
    /\ axvlines' = <<>>
    /\ xticks' = None
    /\ xticklabels' = None
    /\ xlim' = None
    /\ outcome' = NoCall
    /\ UNCHANGED <<features_, classes_, ax, show_vlines, vlines_kwds, kwds_arg>>

Next == Fit \/ Release

Spec == Init /\ [][Next]_vars

(***************************************************************************)
(* Properties.                                                             *)
(***************************************************************************)
\* A fit call has been made and its record is open.
Called == outcome # NoCall

\* The number of classes after resolution.
NumClasses == Len(Get(classes_))

\* The raw label of the instance at (one-based) position i of y.
RawLabel(i) == Get(y)[i]

\* The call raised during resolution, before the instance loop (line 139).
RaisedBeforeDrawing == outcome.status = "raised" /\ outcome.line < 139

\* The call got as far as the decoration step (line 146).
ReachedDecoration == outcome.status = "returned" \/ outcome.line >= 146

\* The number of iterations of the instance loop of the call.
LoopLength == IF X.columns # None THEN X.ncols ELSE X.nrows

IndexNames == <<"0", "1", "2", "3", "4">>

\* The feature names the documentation promises for X when none are given.
ExpectedFeatures ==
    IF X.columns # None THEN Get(X.columns) ELSE SubSeq(IndexNames, 1, X.ncols)

\* The (zero-based) instances whose raw label is outside [0, C).
Offending == {i - 1 : i \in {j \in 1..Len(Get(y)) : RawLabel(j) \notin 0..(NumClasses - 1)}}

\* A valid call: one label per row, each label a position of the class list,
\* one color per class, and a feature list (if given) of one name per column.
ValidCall ==
    /\ Called
    /\ y # None
    /\ classes_ # None
    /\ Offending = {}
    /\ Len(color_values) = NumClasses
    /\ (pre.features # None => Len(Get(pre.features)) = X.ncols)

\* C1: for every valid X of shape (N, F) and y of length N, one call of fit
\* draws exactly N polylines and sets exactly F ticks, labelled with the F
\* resolved feature names.
C1_DrawsNPolylinesAndFTicks ==
    ValidCall =>
        /\ Len(plotted) = X.nrows
        /\ xticks # None
        /\ Len(Get(xticks)) = X.ncols
        /\ xticklabels = features_
        /\ Len(Get(features_)) = X.ncols

\* C2: when the explicit feature list has a length different from the number
\* of columns of the array X (the labels and colors being valid), fit raises
\* a configuration error before any line is drawn.
C2_FeatureMismatchAborts ==
    (Called /\ X.columns = None /\ pre.features # None /\ Len(Get(pre.features)) # X.ncols
        /\ y # None /\ Len(color_values) = NumClasses /\ Offending = {}) =>
        (RaisedBeforeDrawing /\ plotted = <<>>)

\* C3: when fit is called without y on a visualizer without a class list,
\* it raises during resolution and draws nothing on the canvas.
C3_MissingLabelsAbort ==
    (Called /\ y = None /\ pre.classes = None) =>
        (RaisedBeforeDrawing /\ plotted = <<>> /\ axvlines = <<>> /\ xticks = None)

C3_Witness ==
    /\ Called
    /\ y = None
    /\ pre.classes = None
    /\ X.nrows >= 1
    /\ outcome.type = "TypeError"

\* The number of ticks the call set on the horizontal axis.
TickCount == IF xticks = None THEN 0 ELSE Len(Get(xticks))

\* C4: whenever fit (on an array X, with one color per class) ends in an
\* error, the canvas holds no polyline, guide line or tick drawn by that call.
C4_NoPartialFigure ==
    (Called /\ X.columns = None /\ classes_ # None /\ Len(color_values) = NumClasses
        /\ outcome.status = "raised") =>
        (plotted = <<>> /\ axvlines = <<>> /\ TickCount = 0)

\* C5: when some instance of the array X has a raw label outside [0, C) (and
\* there is one color per class), fit raises an error that identifies an
\* offending instance index.
C5_OutOfBoundsLabelIdentified ==
    (Called /\ X.columns = None /\ y # None /\ classes_ # None
        /\ Len(color_values) = NumClasses /\ Offending # {}) =>
        /\ outcome.status = "raised"
        /\ outcome.instance # None
        /\ Get(outcome.instance) \in Offending

\* C6: once the feature list and the class list are resolved, no later step
\* (in particular no later fit, whatever X and y) changes either of them.
C6_ResolvedListsAreKept ==
    [][(features_ # None /\ classes_ # None) =>
          (features_' = features_ /\ classes_' = classes_)]_vars

C6_Witness ==
    /\ Called
    /\ pre.features = Some(<<"0">>)
    /\ pre.classes = Some(<<"0">>)
    /\ X.ncols = 2
    /\ y = Some(<<1, 0 - 1>>)
    /\ features_ = pre.features
    /\ classes_ = pre.classes

\* C7 as stated: when no feature names are supplied, fit resolves the feature
\* list to the column labels of X, or to "0".."F-1", of length F.
C7_FeaturesDerived_Original ==
    (Called /\ pre.features = None) =>
        (features_ = Some(ExpectedFeatures) /\ Len(Get(features_)) = X.ncols)

\* C7 as amended: the same, for every call that gets past class resolution
\* (a label vector is given or a class list is already set); a call that
\* aborts there leaves the feature list unresolved.
C7_FeaturesDerived ==
    /\ (Called /\ pre.features = None /\ ~(pre.classes = None /\ y = None)) =>
          (features_ = Some(ExpectedFeatures) /\ Len(Get(features_)) = X.ncols)
    /\ (Called /\ pre.features = None /\ pre.classes = None /\ y = None) =>
          features_ = None

C7_Witness ==
    /\ Called
    /\ pre.features = None
    /\ X.columns = None
    /\ X.ncols = 2
    /\ features_ = Some(<<"0", "1">>)

\* C8: whenever the color sequence and the class list differ in length, the
\* call (on an array X) does not complete as if the mapping were valid: it
\* raises.
C8_ColorCountMismatchNotMasked ==
    (Called /\ X.columns = None /\ classes_ # None /\ outcome.line # 108
        /\ Len(color_values) # NumClasses) =>
        outcome.status = "raised"

\* F guide lines, one per axis position 0..F-1, in the configured style,
\* which is the default style when the constructor was given none.
GuidesDrawn ==
    /\ Len(axvlines) = X.ncols
    /\ \A i \in 1..Len(axvlines) :
          /\ axvlines[i].pos = i - 1
          /\ axvlines[i].kwds = vlines_kwds
          /\ (kwds_arg = None => axvlines[i].kwds = {<<"linewidth", 1>>, <<"color", "black">>})

\* C9 as stated: with vlines enabled fit draws exactly F guide lines, with
\* vlines disabled none.
C9_GuideLines_Original ==
    Called => IF show_vlines THEN GuidesDrawn ELSE axvlines = <<>>

\* C9 as amended: the same for a call that raises nothing before the
\* decoration step; a call that aborts earlier draws no guide line.
C9_GuideLines ==
    /\ (Called /\ ReachedDecoration) => IF show_vlines THEN GuidesDrawn ELSE axvlines = <<>>
    /\ (Called /\ ~ReachedDecoration) => axvlines = <<>>

C9_Witness ==
    /\ Called
    /\ show_vlines
    /\ kwds_arg = None
    /\ X.ncols = 2
    /\ Len(axvlines) = 2
    /\ outcome.status = "returned"

Position(raw) == IF raw < 0 THEN NumClasses + raw + 1 ELSE raw + 1

====
